---- MODULE Spec2Model ----
(***************************************************************************)
(* Model of the vessel data pipeline.                                       *)
(*                                                                         *)
(* merge.py: load_countries_mapping, merge_databases and                   *)
(* save_countries_mapping, run against the three SQLite tables             *)
(* (shipxplorer_vessels.db = primary, vesseltracker.db = secondary,        *)
(* merged_vessels.db = merged store), countries.csv and                    *)
(* merged_vessels.countries.json.                                          *)
(*                                                                         *)
(* Text values are sequences of one-character strings, so that strip()     *)
(* and upper() are computed.  SQL NULL / Python None in a text column is   *)
(* the value NULL.  mmsi and imo are never inspected by merge.py, only     *)
(* compared and tested for NULL: they are encoded as integers, NullId for  *)
(* NULL, EmptyId for the empty string '' and a positive number for any     *)
(* other text.                                                             *)
(*                                                                         *)
(* main.py: normalize_name, computed on sequences of characters, and the   *)
(* page loop of main with get_page_data and fetch_page_from_network.       *)
(*                                                                         *)
(* The specifications share one state: Spec (merge.py),                    *)
(* SpecLong (merge.py over a secondary table longer than the checkpoint    *)
(* interval), SpecName (normalize_name) and SpecScrape (the page loop).    *)
(* The variables of the programs a specification does not run keep their   *)
(* initial values.                                                         *)
(***************************************************************************)
EXTENDS Integers, Sequences, FiniteSets, TLC

\* ------------------------------------------------------------------------
\* Bounds of the model
\* ------------------------------------------------------------------------
MaxRows == 2      \* rows of the secondary table
MaxSx   == 2      \* rows of the primary table
MaxRuns == 2      \* runs of merge.py against the same files
MaxCsvRows == 2   \* rows of countries.csv
MaxJsonItems == 2 \* items of the persisted mapping file
LongExtra == 2    \* rows of the long secondary table beyond the interval - 1
MaxNameLen == 4   \* characters of an argument of normalize_name
MaxPage == 2      \* the last page of the scraper's range (--end)

\* ------------------------------------------------------------------------
\* Text
\* ------------------------------------------------------------------------
NULL == <<"NULL">>
NullId == 0 - 1
EmptyId == 0

SP == " "

\* the characters str.strip() and the regular expression \s take for
\* whitespace, as far as the inputs hold them: space, tab, newline
Whitespace == {SP, "\t", "\n"}

\* str.upper() on one character
UpperChar(ch) ==
  CASE ch = "n" -> "N"
    [] ch = "m" -> "M"
    [] ch = "u" -> "U"
    [] ch = "f" -> "F"
    [] ch = "c" -> "C"
    [] ch = "a" -> "A"
    [] ch = "e" -> "E"
    [] ch = "r" -> "R"
    [] ch = "t" -> "T"
    [] OTHER -> ch

Upper(s) == [k \in 1..Len(s) |-> UpperChar(s[k])]

RECURSIVE LStrip(_)
LStrip(s) == IF s # <<>> /\ Head(s) \in Whitespace THEN LStrip(Tail(s)) ELSE s

RECURSIVE RStrip(_)
RStrip(s) ==
  IF s # <<>> /\ s[Len(s)] \in Whitespace THEN RStrip(SubSeq(s, 1, Len(s) - 1)) ELSE s

\* str.strip()
Strip(s) == RStrip(LStrip(s))

\* Python truthiness of an optional text: None and '' are falsy
Truthy(s) == s # NULL /\ s # <<>>

\* NormOpt without the strip and the upper
NormOptRaw(x) == IF Truthy(x) THEN x ELSE NULL

\* x.strip().upper() if x else None            (merge.py 126, 127, 143, 61, 62)
NormOpt(x) == IF Truthy(x) THEN Upper(Strip(x)) ELSE NULL

\* x.strip().upper() if x.strip() else None    (merge.py 31, 32)
NormCsv(x) == IF Strip(x) # <<>> THEN Upper(Strip(x)) ELSE NULL

\* order of one-character strings, as json.dump(sort_keys=True) compares them
Ord(ch) ==
  CASE ch = SP -> 32
    [] ch = "C" -> 67
    [] ch = "F" -> 70
    [] ch = "M" -> 77
    [] ch = "N" -> 78
    [] ch = "U" -> 85
    [] ch = "c" -> 99
    [] ch = "f" -> 102
    [] ch = "m" -> 109
    [] ch = "n" -> 110
    [] ch = "u" -> 117
    [] OTHER -> 0

RECURSIVE StrLess(_, _)
StrLess(a, b) ==
  IF a = <<>> THEN b # <<>>
  ELSE IF b = <<>> THEN FALSE
  ELSE IF Head(a) = Head(b) THEN StrLess(Tail(a), Tail(b))
  ELSE Ord(Head(a)) < Ord(Head(b))

\* ------------------------------------------------------------------------
\* Python dict: a sequence of <<key, value>> pairs in insertion order, with
\* distinct keys.  None (what load_countries_mapping returns when it falls
\* off its end) is NoneDict.
\* ------------------------------------------------------------------------
NoneDict == <<NULL>>

IsNone(d) == d = NoneDict

\* k in d
DictHas(d, k) == \E j \in 1..Len(d) : d[j][1] = k

\* d[k]
DictGet(d, k) == d[CHOOSE j \in 1..Len(d) : d[j][1] = k][2]

\* d[k] = v
DictSet(d, k, v) ==
  IF DictHas(d, k)
  THEN [j \in 1..Len(d) |-> IF d[j][1] = k THEN <<k, v>> ELSE d[j]]
  ELSE Append(d, <<k, v>>)

DictKeys(d) == {d[j][1] : j \in 1..Len(d)}

\* ------------------------------------------------------------------------
\* Rows.  vessel_type, length and beam are copied from the secondary row to
\* the merged row unchanged and read by nothing: they are left out.
\* ------------------------------------------------------------------------
VtRow(m, im, nm, cs, cc, cn) ==
  [mmsi |-> m, imo |-> im, name |-> nm, callsign |-> cs,
   flag_country_code |-> cc, flag_country |-> cn]

SxRow(m, im, cc, cn) ==
  [mmsi |-> m, imo |-> im, flag_country_code |-> cc, flag_country |-> cn]

\* fetchone() returning None
NoSxRow == SxRow(NullId, NullId, NULL, NULL)

\* ------------------------------------------------------------------------
\* Files
\* ------------------------------------------------------------------------
\* countries.csv: rows are the rows csv.reader yields; fails = reading raises
\* after them (an undecodable byte, an I/O error; with no row: open() raises)
CsvFile(ex, rows, fails) == [exists |-> ex, rows |-> rows, fails |-> fails]
CsvAbsent == CsvFile(FALSE, <<>>, FALSE)

\* merged_vessels.countries.json: kind "dict" (a JSON object, items in file
\* order), "other" (valid JSON that is no object) or "invalid" (json.load or
\* open raises)
JsonFile(ex, kind, items) == [exists |-> ex, kind |-> kind, items |-> items]
JsonAbsent == JsonFile(FALSE, "invalid", <<>>)

\* a JSON value that is not a string (a number): kept as it is by line 51
JsonNumber == <<"number">>

\* isinstance(v, str), for a v that is not None
IsStr(v) == v # JsonNumber

\* ------------------------------------------------------------------------
\* load_countries_mapping
\* ------------------------------------------------------------------------
\* 1) the rows of countries.csv, lines 24-34: a later row overwrites
RECURSIVE LoadCsvRows(_, _)
LoadCsvRows(rows, d) ==
  IF rows = <<>> THEN d
  ELSE LET row == Head(rows)
           c_nm == NormCsv(row[1])
           c_cd == NormCsv(row[2])
       IN  IF Len(row) < 2 THEN LoadCsvRows(Tail(rows), d)
           ELSE IF Truthy(c_nm) /\ Truthy(c_cd)
                THEN LoadCsvRows(Tail(rows), DictSet(d, c_nm, c_cd))
                ELSE LoadCsvRows(Tail(rows), d)

\* lines 19-36: an exception while reading keeps the rows already stored
LoadCsv(csv) == IF csv.exists THEN LoadCsvRows(csv.rows, <<>>) ELSE <<>>

\* 2) the items of the JSON object, lines 44-51: only keys not yet present
RECURSIVE LoadJsonItems(_, _)
LoadJsonItems(items, d) ==
  IF items = <<>> THEN d
  ELSE LET k  == Head(items)[1]
           v  == Head(items)[2]
           nk == Upper(Strip(k))
       IN  IF k = <<>> \/ v = NULL THEN LoadJsonItems(Tail(items), d)
           ELSE IF ~DictHas(d, nk)
                THEN LoadJsonItems(Tail(items),
                       DictSet(d, nk, IF IsStr(v) THEN Upper(Strip(v)) ELSE v))
                ELSE LoadJsonItems(Tail(items), d)

\* lines 41-53: json.load raising, or a value that is no object, adds nothing
LoadJson(json, d) ==
  IF json.kind = "dict" THEN LoadJsonItems(json.items, d) ELSE d

\* 3) lines 57-64: the primary table's (code, name) pairs, both NOT NULL, in
\* scan order; DISTINCT only drops repetitions, which line 63 ignores anyway
RECURSIVE LoadSxRows(_, _)
LoadSxRows(rows, d) ==
  IF rows = <<>> THEN d
  ELSE LET r    == Head(rows)
           c_cd == NormOpt(r.flag_country_code)
           c_nm == NormOpt(r.flag_country)
       IN  IF r.flag_country_code # NULL /\ r.flag_country # NULL
              /\ Truthy(c_nm) /\ Truthy(c_cd) /\ ~DictHas(d, c_nm)
           THEN LoadSxRows(Tail(rows), DictSet(d, c_nm, c_cd))
           ELSE LoadSxRows(Tail(rows), d)

\* lines 14-66: steps 3 and the return are inside "if countries_file.exists()"
load_countries_mapping(csv, json, sxRows) ==
  IF json.exists
  THEN LoadSxRows(sxRows, LoadJson(json, LoadCsv(csv)))
  ELSE NoneDict

\* ------------------------------------------------------------------------
\* save_countries_mapping: json.dump(..., sort_keys=True)
\* ------------------------------------------------------------------------
RECURSIVE InsertSorted(_, _)
InsertSorted(item, sorted) ==
  IF sorted = <<>> THEN <<item>>
  ELSE IF StrLess(item[1], Head(sorted)[1]) THEN <<item>> \o sorted
  ELSE <<Head(sorted)>> \o InsertSorted(item, Tail(sorted))

RECURSIVE SortItems(_)
SortItems(d) ==
  IF d = <<>> THEN <<>> ELSE InsertSorted(Head(d), SortItems(Tail(d)))

\* Dump without sort_keys: the pairs in insertion order
DumpUnsorted(d) == d

\* the text json.dump writes for a dict: its items, keys sorted
Dump(d) == SortItems(d)

\* the temporary file: complete = json.dump ran to its end
TmpFile(ex, items, complete) ==
  [exists |-> ex, items |-> items, complete |-> complete]
TmpAbsent == TmpFile(FALSE, <<>>, FALSE)

\* ------------------------------------------------------------------------
\* merge_databases, one row of the loop
\* ------------------------------------------------------------------------
\* line 126
RowCode(row) == NormOpt(row.flag_country_code)

\* line 127
RowName(row) == NormOpt(row.flag_country)

\* lines 128-129: "c_name in countries" is evaluated only when not c_code,
\* and raises TypeError when countries is None
LookupRaises(row, d) == ~Truthy(RowCode(row)) /\ IsNone(d)

CodeAfterMapping(row, d) ==
  IF ~Truthy(RowCode(row)) /\ DictHas(d, RowName(row))
  THEN DictGet(d, RowName(row))
  ELSE RowCode(row)

\* line 134: where mmsi = ? or imo = ?  (a comparison with NULL is not true)
SxMatch(r, row) ==
  \/ r.mmsi # NullId /\ row.mmsi # NullId /\ r.mmsi = row.mmsi
  \/ r.imo # NullId /\ row.imo # NullId /\ r.imo = row.imo

\* lines 133-140: fetchone() of a scan of the primary table (no index on
\* imo, so SQLite scans in rowid order): the first matching row, or None
FetchOne(sxRows, row) ==
  IF \E j \in 1..Len(sxRows) : SxMatch(sxRows[j], row)
  THEN sxRows[CHOOSE j \in 1..Len(sxRows) :
                /\ SxMatch(sxRows[j], row)
                /\ \A h \in 1..(j - 1) : ~SxMatch(sxRows[h], row)]
  ELSE NoSxRow

\* Learn with the "not in countries" test of line 147 dropped
LearnOverwrite(d, c_nm, c_cd) ==
  IF Truthy(c_nm) /\ Truthy(c_cd) THEN DictSet(d, c_nm, c_cd) ELSE d

\* lines 147-148
Learn(d, c_nm, c_cd) ==
  IF Truthy(c_nm) /\ ~DictHas(d, c_nm) /\ Truthy(c_cd)
  THEN DictSet(d, c_nm, c_cd)
  ELSE d

\* Resolve with the query run for every row and the code of the primary row
\* taken whenever it is present
ResolvePrimaryFirst(row, d, sxRows) ==
  LET c1 == CodeAfterMapping(row, d)
      sr == FetchOne(sxRows, row)
      c2 == NormOpt(sr.flag_country_code)
      c3 == IF Truthy(c2) THEN c2 ELSE c1
  IN  [c_code |-> c3, c_name |-> RowName(row), sx_row |-> sr, looked |-> TRUE,
       countries |-> IF sr = NoSxRow \/ IsNone(d) THEN d
                     ELSE Learn(d, RowName(row), c3)]

\* lines 126-148 for a dict d: the locals and the dict after them
Resolve(row, d, sxRows) ==
  LET c1 == CodeAfterMapping(row, d)
      sr == FetchOne(sxRows, row)
      c2 == NormOpt(sr.flag_country_code)
  IN  IF Truthy(c1)
      THEN [c_code |-> c1, c_name |-> RowName(row), sx_row |-> NoSxRow,
            looked |-> FALSE, countries |-> d]
      ELSE IF sr = NoSxRow
      THEN [c_code |-> c1, c_name |-> RowName(row), sx_row |-> NoSxRow,
            looked |-> TRUE, countries |-> d]
      ELSE [c_code |-> c2, c_name |-> RowName(row), sx_row |-> sr,
            looked |-> TRUE, countries |-> Learn(d, RowName(row), c2)]

\* lines 152-153
NormCallsign(cs) == IF Truthy(cs) /\ Len(Strip(cs)) = 0 THEN NULL ELSE cs

\* lines 150-153
MakeData(row, c_cd) ==
  [row EXCEPT !.flag_country_code = c_cd, !.callsign = NormCallsign(row.callsign)]

\* InsertAccepts for a table whose mmsi column is no key
InsertAcceptsNoKey(store, d) == d.imo # NullId /\ d.name # NULL

\* lines 95-107 and 155-162: what a plain INSERT accepts.  mmsi TEXT PRIMARY
\* KEY is unique among non-NULL values (SQLite lets NULL into a non-INTEGER
\* primary key, any number of times); imo and name are NOT NULL
InsertAccepts(store, d) ==
  /\ d.imo # NullId
  /\ d.name # NULL
  /\ d.mmsi = NullId \/ \A j \in 1..Len(store) : store[j].mmsi # d.mmsi

\* ------------------------------------------------------------------------
\* main.py: normalize_name
\* ------------------------------------------------------------------------
\* the backtick character (the lexer of TLA+ takes it for markup)
BackTick == "BACKTICK"

\* line 85: the characters of the class, double quote, single quote,
\* backtick, ! * - . _
Punctuation == {"\"", "'", BackTick, "!", "*", "-", ".", "_"}

\* RemovePunct for the quotes and the backtick only
RemoveQuotesOnly(s) == SelectSeq(s, LAMBDA ch : ch \notin {"\"", "'", BackTick})

\* line 85: re.sub of the class, one or more times, by the empty string
RemovePunct(s) == SelectSeq(s, LAMBDA ch : ch \notin Punctuation)

\* CollapseSpace leaving the text as it is
CollapseSpaceNone(s) == s

\* line 89: re.sub(r"\s+", " ", cleaned), every run of whitespace becomes
\* one space
RECURSIVE CollapseSpace(_)
CollapseSpace(s) ==
  IF s = <<>> THEN <<>>
  ELSE IF Head(s) \in Whitespace THEN <<SP>> \o CollapseSpace(LStrip(s))
  ELSE <<Head(s)>> \o CollapseSpace(Tail(s))

\* lines 81-94
normalize_name(s) ==
  IF ~Truthy(s) THEN NULL
  ELSE LET cleaned == Upper(Strip(CollapseSpace(RemovePunct(s))))
       IN  IF cleaned = <<>> THEN NULL ELSE cleaned

\* ------------------------------------------------------------------------
\* main.py: the page loop
\* ------------------------------------------------------------------------
\* line 16
START_PAGE == 1

\* line 22
MAX_FETCH_RETRIES == 3

\* range(args.start, args.end + 1), line 297
Pages == START_PAGE..MaxPage

\* what page_<n>.json is: no file, a file json.load cannot read, a file
\* holding a payload with vessels, a file holding an empty (falsy) payload
CacheStates == {"absent", "corrupt", "payload", "empty"}

\* what one requests.get ... resp.json() of lines 109-113 comes to: a
\* payload, an empty payload, the JSON value null, a RequestException
\* (connection, timeout, HTTP status), a body that is no JSON
FetchOutcomes == {"payload", "empty", "null", "error", "not_json"}

\* the except clause that catches resp.json() failing on a body that is no
\* JSON: the exception is a requests.exceptions.RequestException in one
\* version of the library and a plain json.JSONDecodeError in another
DecodeCatches == {"RequestException", "JSONDecodeError"}

\* MoreAttempts for range(1, max_retries + 2)
MoreAttemptsOneMore(a) == a <= MAX_FETCH_RETRIES + 1

\* line 107: attempt is in range(1, max_retries + 1)
MoreAttempts(a) == a <= MAX_FETCH_RETRIES

\* ------------------------------------------------------------------------
\* State
\* ------------------------------------------------------------------------
VARIABLES
  sx,         \* shipxplorer_vessels.db, table vessels, in scan order
  vt,         \* vesseltracker.db, table vessels, in scan order
  csvFile,    \* countries.csv
  jsonFile,   \* merged_vessels.countries.json
  tmpFile,    \* merged_vessels.countries.json.tmp
  merged,     \* merged_vessels.db, table vessels: the committed rows
  pending,    \* rows inserted in the open transaction, not yet committed
  countries,  \* the dict of merge_databases (None: NoneDict)
  pc,         \* position of the process
  i,          \* rows of the loop already iterated
  count,      \* line 123
  c_code,     \* locals of the last iteration
  c_name,
  sx_row,
  looked,     \* the last iteration ran the query of lines 133-140
  error,      \* the exception that ended the process, "" if none
  run,        \* number of the current run of merge.py
  name_in,    \* main.py, normalize_name: the argument s
  name_out,   \* the value normalize_name returned
  npc,        \* position of the call of normalize_name
  no_network, \* main.py, main: args.no_network
  cache,      \* the JSON cache directory: the state of page_<n>.json
  page,       \* the page of the loop of line 297
  attempt,    \* fetch_page_from_network: attempt of line 107
  http_requests, \* requests.get calls made so far
  call_requests, \* requests.get calls fetch_page_from_network made for the page
  outcome,    \* what its last attempt came to, "none" before the first
  page_data,  \* what get_page_data returned for the page
  parsed,     \* the pages handed to parse_and_save
  fpc         \* position of the page loop

mergeVars == <<sx, vt, csvFile, jsonFile, tmpFile, merged, pending, countries,
               pc, i, count, c_code, c_name, sx_row, looked, error, run>>
nameVars == <<name_in, name_out, npc>>
scrapeVars == <<no_network, cache, page, attempt, http_requests,
                call_requests, outcome, page_data, parsed, fpc>>

vars == <<mergeVars, nameVars, scrapeVars>>

inputs == <<sx, vt, csvFile>>
locals == <<c_code, c_name, sx_row, looked>>

\* line 164
CheckpointInterval == 100

\* AtCheckpoint with a period one longer than the interval
AtCheckpointLate(n) == n % (CheckpointInterval + 1) = 0

\* line 164: count % 100 == 0
AtCheckpoint(n) == n % CheckpointInterval = 0

\* the table as the connection of the running process sees it
Store == merged \o pending

Running == {"start", "load", "loop", "checkpoint", "save", "replace", "close"}

\* ------------------------------------------------------------------------
\* Actions
\* ------------------------------------------------------------------------
\* lines 84-113: connect, CREATE TABLE IF NOT EXISTS, commit
Connect ==
  /\ pc = "start"
  /\ pc' = "load"
  /\ UNCHANGED <<inputs, jsonFile, tmpFile, merged, pending, countries, i,
                 count, locals, error, run>>
  /\ UNCHANGED <<nameVars, scrapeVars>>

\* lines 116-124
LoadCountries ==
  /\ pc = "load"
  /\ countries' = load_countries_mapping(csvFile, jsonFile, sx)
  /\ i' = 0
  /\ count' = 0
  /\ pc' = "loop"
  /\ UNCHANGED <<inputs, jsonFile, tmpFile, merged, pending, locals, error, run>>
  /\ UNCHANGED <<nameVars, scrapeVars>>

\* an uncaught exception ends the process: the open transaction is lost
Raise(name) ==
  /\ pc' = "aborted"
  /\ error' = name
  /\ pending' = <<>>

\* lines 125-162, one iteration up to the INSERT
ProcessRow ==
  /\ pc = "loop"
  /\ i < Len(vt)
  /\ LET row == vt[i + 1]
     IN  IF LookupRaises(row, countries)
         THEN /\ Raise("TypeError")
              /\ c_code' = RowCode(row)
              /\ c_name' = RowName(row)
              /\ UNCHANGED <<inputs, jsonFile, tmpFile, merged, countries, i,
                             count, sx_row, looked, run>>
         ELSE LET res  == Resolve(row, countries, sx)
                  data == MakeData(row, res.c_code)
              IN  /\ c_code' = res.c_code
                  /\ c_name' = res.c_name
                  /\ looked' = res.looked
                  /\ sx_row' = IF res.looked THEN res.sx_row ELSE sx_row
                  /\ countries' = res.countries
                  /\ IF InsertAccepts(Store, data)
                     THEN /\ count' = count + 1
                          /\ i' = i + 1
                          /\ pending' = Append(pending, data)
                          /\ pc' = "checkpoint"
                          /\ UNCHANGED <<merged, error>>
                     ELSE /\ Raise("IntegrityError")
                          /\ UNCHANGED <<merged, i, count>>
                  /\ UNCHANGED <<inputs, jsonFile, tmpFile, run>>
  /\ UNCHANGED <<nameVars, scrapeVars>>

\* lines 164-166, the end of the iteration: commit at every 100th record
Checkpoint ==
  /\ pc = "checkpoint"
  /\ IF AtCheckpoint(count)
     THEN /\ merged' = Store
          /\ pending' = <<>>
     ELSE UNCHANGED <<merged, pending>>
  /\ pc' = "loop"
  /\ UNCHANGED <<inputs, jsonFile, tmpFile, countries, i, count, locals,
                 error, run>>
  /\ UNCHANGED <<nameVars, scrapeVars>>

\* line 169
FinalCommit ==
  /\ pc = "loop"
  /\ i = Len(vt)
  /\ merged' = Store
  /\ pending' = <<>>
  /\ pc' = "save"
  /\ UNCHANGED <<inputs, jsonFile, tmpFile, countries, i, count, locals,
                 error, run>>
  /\ UNCHANGED <<nameVars, scrapeVars>>

\* lines 70-75: countries.items() of None raises outside the try; the dump
\* into the temporary file may fail part-way, which line 78 catches
SaveWriteTmp ==
  /\ pc = "save"
  /\ IF IsNone(countries)
     THEN /\ Raise("AttributeError")
          /\ UNCHANGED tmpFile
     ELSE /\ \E ok \in BOOLEAN :
               /\ tmpFile' = TmpFile(TRUE, Dump(countries), ok)
               /\ pc' = IF ok THEN "replace" ELSE "close"
          /\ UNCHANGED <<pending, error>>
  /\ UNCHANGED <<inputs, jsonFile, merged, countries, i, count, locals, run>>
  /\ UNCHANGED <<nameVars, scrapeVars>>

\* line 77: os.replace, atomic; a failure is caught by line 78
SaveReplace ==
  /\ pc = "replace"
  /\ \E ok \in BOOLEAN :
       IF ok
       THEN /\ jsonFile' = JsonFile(TRUE, "dict", tmpFile.items)
            /\ tmpFile' = TmpAbsent
       ELSE UNCHANGED <<jsonFile, tmpFile>>
  /\ pc' = "close"
  /\ UNCHANGED <<inputs, merged, pending, countries, i, count, locals,
                 error, run>>
  /\ UNCHANGED <<nameVars, scrapeVars>>

\* lines 172-174
Close ==
  /\ pc = "close"
  /\ pc' = "done"
  /\ UNCHANGED <<inputs, jsonFile, tmpFile, merged, pending, countries, i,
                 count, locals, error, run>>
  /\ UNCHANGED <<nameVars, scrapeVars>>

\* the process is terminated from outside: the open transaction is lost
Interrupt ==
  /\ pc \in Running
  /\ pc' = "killed"
  /\ pending' = <<>>
  /\ UNCHANGED <<inputs, jsonFile, tmpFile, merged, countries, i, count,
                 locals, error, run>>
  /\ UNCHANGED <<nameVars, scrapeVars>>

\* merge.py is started again on the same files
Restart ==
  /\ pc \in {"done", "aborted", "killed"}
  /\ run < MaxRuns
  /\ run' = run + 1
  /\ pc' = "start"
  /\ countries' = NoneDict
  /\ i' = 0
  /\ count' = 0
  /\ c_code' = NULL
  /\ c_name' = NULL
  /\ sx_row' = NoSxRow
  /\ looked' = FALSE
  /\ error' = ""
  /\ UNCHANGED <<inputs, jsonFile, tmpFile, merged, pending>>
  /\ UNCHANGED <<nameVars, scrapeVars>>

Next ==
  \/ Connect
  \/ LoadCountries
  \/ ProcessRow
  \/ Checkpoint
  \/ FinalCommit
  \/ SaveWriteTmp
  \/ SaveReplace
  \/ Close
  \/ Interrupt
  \/ Restart

\* main.py 75-94: one call of normalize_name
NormalizeName ==
  /\ npc = "call"
  /\ name_out' = normalize_name(name_in)
  /\ npc' = "returned"
  /\ UNCHANGED <<name_in, mergeVars, scrapeVars>>

NextName == NormalizeName

\* line 305: use_cache = not args.no_network
UseCache == ~no_network

\* main.py 297-307 and 151-162: the next page of the loop; get_page_data
\* returns the cached payload, or goes on to the network
GetPageData ==
  /\ fpc = "page"
  /\ IF UseCache /\ cache[page] \in {"payload", "empty"}
     THEN /\ page_data' = cache[page]
          /\ fpc' = "handle"
          /\ call_requests' = 0
          /\ outcome' = "none"
          /\ UNCHANGED attempt
     ELSE /\ attempt' = 1
          /\ call_requests' = 0
          /\ outcome' = "none"
          /\ fpc' = "fetch"
          /\ UNCHANGED page_data
  /\ UNCHANGED <<no_network, cache, page, http_requests, parsed>>
  /\ UNCHANGED <<mergeVars, nameVars>>

\* main.py 107-134, one attempt of fetch_page_from_network, and for a
\* decoded payload lines 168-177 of get_page_data: save to the cache (an
\* OSError is caught), return the payload
FetchAttempt ==
  /\ fpc = "fetch"
  /\ MoreAttempts(attempt)
  /\ http_requests' = http_requests + 1
  /\ call_requests' = call_requests + 1
  /\ \E out \in FetchOutcomes, caught \in DecodeCatches, saved \in BOOLEAN :
       /\ outcome' = out
       /\ CASE out \in {"payload", "empty"} ->
              /\ page_data' = out
              /\ cache' = IF saved THEN [cache EXCEPT ![page] = out] ELSE cache
              /\ fpc' = "handle"
              /\ UNCHANGED attempt
         [] out = "null" \/ (out = "not_json" /\ caught = "JSONDecodeError") ->
              /\ page_data' = "None"
              /\ fpc' = "handle"
              /\ UNCHANGED <<cache, attempt>>
         [] OTHER ->
              /\ attempt' = attempt + 1
              /\ UNCHANGED <<cache, page_data, fpc>>
  /\ UNCHANGED <<no_network, page, parsed>>
  /\ UNCHANGED <<mergeVars, nameVars>>

\* main.py 136-140 and 166-167: the attempts are used up
FetchGiveUp ==
  /\ fpc = "fetch"
  /\ ~MoreAttempts(attempt)
  /\ page_data' = "None"
  /\ fpc' = "handle"
  /\ UNCHANGED <<no_network, cache, page, attempt, http_requests,
                 call_requests, outcome, parsed>>
  /\ UNCHANGED <<mergeVars, nameVars>>

\* main.py 308-314: a truthy payload is parsed and the loop goes on,
\* anything else stops it
HandleData ==
  /\ fpc = "handle"
  /\ IF page_data = "payload"
     THEN /\ parsed' = parsed \cup {page}
          /\ IF page < MaxPage
             THEN page' = page + 1 /\ fpc' = "page"
             ELSE page' = page /\ fpc' = "finished"
     ELSE /\ fpc' = "stopped"
          /\ UNCHANGED <<page, parsed>>
  /\ UNCHANGED <<no_network, cache, attempt, http_requests, call_requests,
                 outcome, page_data>>
  /\ UNCHANGED <<mergeVars, nameVars>>

NextScrape ==
  \/ GetPageData
  \/ FetchAttempt
  \/ FetchGiveUp
  \/ HandleData

\* ------------------------------------------------------------------------
\* Inputs
\* ------------------------------------------------------------------------
\* sequences over S of length at most n
SeqsUpTo(S, n) == UNION {[1..k -> S] : k \in 0..n}

VesselName == <<"V">>

\* vesseltracker.db is read as it is found: merge.py selects nine columns and
\* checks none of them
VtRecords ==
  {VtRow(m, 1, VesselName, IF m = 1 THEN <<>> ELSE <<SP>>, cc, <<"n", SP>>) :
     m \in {1, 2}, cc \in {NULL, <<"F">>}}
  \cup {VtRow(m, 1, VesselName, NULL, NULL, <<"n", SP>>) : m \in {NullId, EmptyId}}
  \cup {VtRow(1, NullId, VesselName, NULL, <<"F">>, NULL),
        VtRow(2, 2, NULL, NULL, <<"F">>, NULL),
        VtRow(2, 2, VesselName, <<"c">>, <<SP>>, <<"m">>)}

\* shipxplorer_vessels.db: mmsi is a non-empty unique key (main.py 207-211,
\* 226), every other column is whatever the site sent
SxRecords ==
  {SxRow(1, 1, <<"u">>, NULL),
   SxRow(1, 1, NULL, NULL),
   SxRow(1, NullId, <<"u", SP>>, <<"n">>),
   SxRow(2, 1, <<"F">>, <<"m">>),
   SxRow(2, NullId, <<"F">>, NULL)}

DistinctMmsi(rows) ==
  \A a, b \in 1..Len(rows) : a # b => rows[a].mmsi # rows[b].mmsi

SxTables == {t \in SeqsUpTo(SxRecords, MaxSx) : DistinctMmsi(t)}

CsvRows ==
  {<<<<"n">>>>,
   <<<<"n">>, <<"u">>>>,
   <<<<SP, "N">>, <<"F">>>>,
   <<<<"m">>, <<SP>>>>}

CsvFiles ==
  {CsvAbsent}
  \cup {CsvFile(TRUE, rows, f) : rows \in SeqsUpTo(CsvRows, MaxCsvRows), f \in BOOLEAN}

JsonItems ==
  {<<<<"n">>, <<"f">>>>,
   <<<<"N">>, <<SP>>>>,
   <<<<"m">>, NULL>>,
   <<<<>>, <<"u">>>>,
   <<<<"m", SP>>, JsonNumber>>}

DistinctKeys(items) ==
  \A a, b \in 1..Len(items) : a # b => items[a][1] # items[b][1]

JsonFiles ==
  {JsonAbsent, JsonFile(TRUE, "invalid", <<>>), JsonFile(TRUE, "other", <<>>)}
  \cup {JsonFile(TRUE, "dict", items) :
          items \in {t \in SeqsUpTo(JsonItems, MaxJsonItems) : DistinctKeys(t)}}

\* the reconciliation inputs: every table, few files
InitTables ==
  /\ sx \in SxTables
  /\ vt \in SeqsUpTo(VtRecords, MaxRows)
  /\ csvFile = CsvAbsent
  /\ jsonFile \in {JsonAbsent,
                   JsonFile(TRUE, "dict", <<>>),
                   JsonFile(TRUE, "dict", <<<<<<"n">>, <<"f">>>>>>),
                   JsonFile(TRUE, "dict", <<<<<<"N">>, <<SP>>>>>>)}

\* the load inputs: every file, few tables
InitFiles ==
  /\ sx \in {<<>>, <<SxRow(1, NullId, <<"u", SP>>, <<"n">>)>>}
  /\ vt \in {<<VtRow(1, 1, VesselName, NULL, NULL, <<"n", SP>>)>>,
             <<VtRow(1, 1, VesselName, NULL, <<"F">>, NULL)>>}
  /\ csvFile \in CsvFiles
  /\ jsonFile \in JsonFiles

\* the state of merge.py when it is started for the first time
MergeStart ==
  /\ tmpFile = TmpAbsent
  /\ merged = <<>>
  /\ pending = <<>>
  /\ countries = NoneDict
  /\ pc = "start"
  /\ i = 0
  /\ count = 0
  /\ c_code = NULL
  /\ c_name = NULL
  /\ sx_row = NoSxRow
  /\ looked = FALSE
  /\ error = ""
  /\ run = 1

\* normalize_name is not called
NameIdle ==
  /\ name_in = NULL
  /\ name_out = NULL
  /\ npc = "idle"

\* main.py is not run
ScrapeIdle ==
  /\ no_network = FALSE
  /\ cache = <<>>
  /\ page = 0
  /\ attempt = 0
  /\ http_requests = 0
  /\ call_requests = 0
  /\ outcome = "none"
  /\ page_data = "None"
  /\ parsed = {}
  /\ fpc = "idle"

Init ==
  /\ InitTables \/ InitFiles
  /\ MergeStart
  /\ NameIdle
  /\ ScrapeIdle

Spec == Init /\ [][Next]_vars

\* a secondary table of n valid rows with distinct mmsi, each carrying its
\* own country code
LongTable(n) == [j \in 1..n |-> VtRow(j, j, VesselName, NULL, <<"F">>, NULL)]

\* merge.py over a secondary table about as long as the checkpoint interval
InitLong ==
  /\ sx = <<>>
  /\ vt \in {LongTable(CheckpointInterval - 1 + k) : k \in 0..LongExtra}
  /\ csvFile = CsvAbsent
  /\ jsonFile \in {JsonAbsent, JsonFile(TRUE, "dict", <<>>)}
  /\ MergeStart
  /\ NameIdle
  /\ ScrapeIdle

SpecLong == InitLong /\ [][Next]_vars

\* merge.py is not run
MergeIdle ==
  /\ sx = <<>>
  /\ vt = <<>>
  /\ csvFile = CsvAbsent
  /\ jsonFile = JsonAbsent
  /\ MergeStart

\* the characters of the arguments of normalize_name: a lower-case and an
\* upper-case letter, two kinds of whitespace, two stripped characters
NameChars == {"a", "M", SP, "\t", "!", "_"}

\* the vessel name of the docstring's kind:   M/V "Sea Star"!!
SeaStar ==
  <<SP, SP, "M", "/", "V", SP, "\"", "S", "e", "a", SP, "S", "t", "a", "r",
    "\"", "!", "!", SP>>

\* None, the empty string, every short text, and the Sea Star
NameInputs == {NULL, SeaStar} \cup SeqsUpTo(NameChars, MaxNameLen)

InitName ==
  /\ name_in \in NameInputs
  /\ name_out = NULL
  /\ npc = "call"
  /\ MergeIdle
  /\ ScrapeIdle

SpecName == InitName /\ [][NextName]_vars

\* main.py started with or without --no-network over any cache directory
InitScrape ==
  /\ no_network \in BOOLEAN
  /\ cache \in [Pages -> CacheStates]
  /\ page = START_PAGE
  /\ attempt = 0
  /\ http_requests = 0
  /\ call_requests = 0
  /\ outcome = "none"
  /\ page_data = "None"
  /\ parsed = {}
  /\ fpc = "page"
  /\ MergeIdle
  /\ NameIdle

SpecScrape == InitScrape /\ [][NextScrape]_vars

\* the page loop is one sequential process that runs while it can: the
\* sleeps of lines 130 and 176 end
SpecScrapeFair == SpecScrape /\ WF_vars(NextScrape)

\* ------------------------------------------------------------------------
\* Properties
\* ------------------------------------------------------------------------
\* the loop has just stored the row vt[i]: it is the last row of Store
Stored == pc = "loop" /\ i > 0
LastRow == vt[i]
LastData == Store[Len(Store)]

\* the row whose iteration raised
Raised == pc = "aborted" /\ i < Len(vt)
FailedRow == vt[i + 1]

\* a row the merged table's NOT NULL columns accept
ValidRow(row) == row.imo # NullId /\ row.name # NULL

\* the secondary table holds valid rows with distinct, present mmsi
CleanSource ==
  /\ \A j \in 1..Len(vt) : ValidRow(vt[j]) /\ vt[j].mmsi \notin {NullId, EmptyId}
  /\ DistinctMmsi(vt)

MmsiOf(rows) == {rows[j].mmsi : j \in 1..Len(rows)}

\* C1: a run of merge_databases started again from the first secondary row,
\* over a merged table an earlier run (interrupted or completed) committed
\* rows to, ends normally and leaves one row for every secondary record: the
\* rows the earlier run committed are replaced, not rejected.  Stated for a
\* present mapping file and a clean secondary table, so that nothing but the
\* re-insertion can fail.
C1_Resumable ==
  (run > 1 /\ jsonFile.exists /\ CleanSource /\ pc \in {"done", "aborted"})
    => /\ pc = "done"
       /\ Len(merged) = Len(vt)
       /\ MmsiOf(merged) = MmsiOf(vt)

\* C2: in every state of the merged table, committed rows and rows of the
\* open transaction together, across runs, no two rows hold the same mmsi
\* value (NULL is the absence of a value).
C2_UniqueMmsi ==
  \A a, b \in 1..Len(Store) :
    (a # b /\ Store[a].mmsi # NullId) => Store[a].mmsi # Store[b].mmsi

\* a second run tried to insert an mmsi that a committed row holds, and the
\* table rejected it
C2_Witness ==
  /\ run = 2
  /\ Raised
  /\ error = "IntegrityError"
  /\ ValidRow(FailedRow)
  /\ \E j \in 1..Len(merged) : merged[j].mmsi = FailedRow.mmsi

\* the primary rows matching a secondary row whose country code is present
CodedMatches(row) ==
  {j \in 1..Len(sx) : SxMatch(sx[j], row) /\ Truthy(NormOpt(sx[j].flag_country_code))}

CsvAlone == LoadCsv(csvFile)
JsonAlone == LoadJson(jsonFile, <<>>)

\* C4: on the first run, a normalized name that countries.csv and the
\* persisted mapping file both give a code is mapped, after the load, to the
\* code of the persisted mapping file.
C4_PersistedOverridesBulk ==
  (run = 1 /\ pc = "loop" /\ i = 0 /\ ~IsNone(countries))
    => \A k \in DictKeys(CsvAlone) \cap DictKeys(JsonAlone) :
         Truthy(DictGet(JsonAlone, k))
           => DictGet(countries, k) = DictGet(JsonAlone, k)

\* C5: whatever the two files, present, absent or unreadable, the load
\* returns a mapping and the run is never ended by the exceptions a missing
\* mapping raises.
C5_LoadNeverAborts ==
  /\ pc \in {"loop", "save", "replace", "close", "done"} => ~IsNone(countries)
  /\ error \notin {"TypeError", "AttributeError"}

\* C6: during the loop a key of the mapping keeps its code and stays a key.
C6_FirstWriterWins ==
  [][(pc = "loop" /\ ~IsNone(countries))
       => \A k \in DictKeys(countries) :
            /\ DictHas(countries', k)
            /\ DictGet(countries', k) = DictGet(countries, k)]_vars

\* the last iteration found a primary row whose code differs from the code
\* the mapping holds for the row's country name: learning it was a no-op
C6_Witness ==
  /\ Stored
  /\ looked
  /\ sx_row # NoSxRow
  /\ Truthy(c_code)
  /\ DictHas(countries, c_name)
  /\ DictGet(countries, c_name) # c_code

\* the iteration of a row is over: it was stored, or line 128 raised
Handled == Stored \/ (Raised /\ error = "TypeError")
HandledRow == IF Stored THEN LastRow ELSE FailedRow

\* the mapping gave no code for the row's country name, which was no key of
\* it: the iteration reached the query, or there was no mapping at all
Unmapped(row) ==
  \/ Raised /\ error = "TypeError"
  \/ /\ Stored
     /\ looked
     /\ ~(DictHas(countries, RowName(row)) /\ ~Truthy(DictGet(countries, RowName(row))))

\* every primary row matching the row holds the one code c
OneCode(row, c) ==
  /\ \E j \in 1..Len(sx) : SxMatch(sx[j], row)
  /\ \A j \in 1..Len(sx) :
       SxMatch(sx[j], row) => NormOpt(sx[j].flag_country_code) = c

\* C7: a valid secondary record without a country code, whose country name n
\* the mapping does not resolve, and whose matching primary records hold the
\* code c, is stored with flag_country_code = c, and mapping[n] = c after it.
C7_LearnFromPrimary ==
  \A c \in {NormOpt(sx[j].flag_country_code) : j \in 1..Len(sx)} :
    ( /\ Handled
      /\ ValidRow(HandledRow)
      /\ ~Truthy(RowCode(HandledRow))
      /\ Truthy(RowName(HandledRow))
      /\ Unmapped(HandledRow)
      /\ Truthy(c)
      /\ OneCode(HandledRow, c) )
    => /\ Stored
       /\ LastData.flag_country_code = c
       /\ DictHas(countries, RowName(LastRow))
       /\ DictGet(countries, RowName(LastRow)) = c

MmsiMatches(row) ==
  {j \in 1..Len(sx) : row.mmsi # NullId /\ sx[j].mmsi = row.mmsi}
ImoMatches(row) ==
  {j \in 1..Len(sx) : row.imo # NullId /\ sx[j].imo = row.imo}

\* C8: for a valid secondary record whose country code is unresolved, whose
\* mmsi is the mmsi of no primary record and whose imo is the imo of some,
\* the query returns a primary record with that imo and the stored row takes
\* its country code.
C8_ImoFallback ==
  ( /\ Handled
    /\ ValidRow(HandledRow)
    /\ ~Truthy(RowCode(HandledRow))
    /\ Raised \/ looked
    /\ MmsiMatches(HandledRow) = {}
    /\ ImoMatches(HandledRow) # {} )
  => /\ Stored
     /\ sx_row # NoSxRow
     /\ sx_row.imo = LastRow.imo
     /\ LastData.flag_country_code = NormOpt(sx_row.flag_country_code)

\* C9: no committed row of the merged table has a NULL or empty mmsi, and
\* after a first, completed run the table has as many rows as there are
\* valid secondary records with a non-empty mmsi.
C9_NoMissingMmsi ==
  /\ \A j \in 1..Len(merged) : merged[j].mmsi \notin {NullId, EmptyId}
  /\ (run = 1 /\ pc = "done")
       => Len(merged) =
            Cardinality({j \in 1..Len(vt) :
                           vt[j].mmsi \notin {NullId, EmptyId} /\ ValidRow(vt[j])})

\* C10: a secondary record with NULL imo or NULL name is never stored and
\* never ends the run: an insert that raises is the insert of a valid row.
C10_ValidationLocal ==
  /\ \A j \in 1..Len(Store) : ValidRow(Store[j])
  /\ (Raised /\ error = "IntegrityError") => ValidRow(FailedRow)

\* a callsign that is the empty string or only whitespace
BlankText(s) == s # NULL /\ Len(Strip(s)) = 0

\* C11: no row of the merged table, committed or in the open transaction,
\* has a callsign that is the empty string or only whitespace: such a
\* callsign is stored as NULL.
C11_NoBlankCallsign ==
  \A j \in 1..Len(Store) : ~BlankText(Store[j].callsign)

\* the target file changes only by the rename of a completely written
\* temporary file holding the dump of the mapping being saved
AtomicReplace ==
  jsonFile' # jsonFile =>
    /\ pc = "replace"
    /\ tmpFile.complete
    /\ jsonFile' = JsonFile(TRUE, "dict", Dump(countries))

\* C12: at every step the mapping file holds either the complete previous
\* mapping or the complete new one, also when the write fails part-way, and
\* no step of save_countries_mapping ends the run with an exception.
C12_AtomicPersist ==
  [][ /\ AtomicReplace
      /\ pc \in {"save", "replace"} => pc' # "aborted" ]_vars

\* the first half of C12 alone
C12_AtomicOnly == [][AtomicReplace]_vars

\* a text in the form x.strip().upper() leaves alone
IsNormalized(s) == s # NULL /\ IsStr(s) /\ s = Upper(Strip(s))

\* the name the last iteration looked up is the normalized flag_country of
\* its row
NormalizedLookup ==
  Stored => /\ c_name = NormOpt(LastRow.flag_country)
            /\ c_name = NULL \/ IsNormalized(c_name)

\* C13 as claimed: every key and every value of the mapping is an
\* upper-cased, trimmed text, after the load and after every iteration,
\* and every lookup uses the normalized country name of the secondary row.
C13_AllNormalized ==
  /\ ~IsNone(countries) =>
       \A j \in 1..Len(countries) :
         IsNormalized(countries[j][1]) /\ IsNormalized(countries[j][2])
  /\ NormalizedLookup

\* C13 amended: every key of the mapping, and every value that is a text,
\* is upper-cased and trimmed; a value of the persisted file that is no text
\* is held as the file gave it.  Every lookup uses the normalized name.
C13_TextNormalized ==
  /\ ~IsNone(countries) =>
       \A j \in 1..Len(countries) :
         /\ IsNormalized(countries[j][1])
         /\ IsStr(countries[j][2]) => IsNormalized(countries[j][2])
  /\ NormalizedLookup

\* a lookup was made in a mapping that holds a number the persisted file
\* gave under the key "m ", next to a code the load upper-cased and trimmed
C13_Witness ==
  /\ Stored
  /\ ~IsNone(countries)
  /\ c_name = <<"N">>
  /\ DictHas(countries, <<"M">>)
  /\ DictGet(countries, <<"M">>) = JsonNumber
  /\ DictHas(countries, <<"N">>)
  /\ DictGet(countries, <<"N">>) = <<"U">>

\* the dicts holding the pairs of d in another insertion order
Reordered(d) ==
  {[j \in 1..Len(d) |-> d[f[j]]] : f \in Permutations(1..Len(d))}

\* this run's save replaced the mapping file
Saved == pc \in {"close", "done"} /\ ~tmpFile.exists

\* C16: the serialization of the mapping depends only on its set of pairs,
\* not on their insertion order: dumping any reordering of the mapping gives
\* the content of the dump of the mapping, and once the file is saved,
\* persisting the unchanged mapping again would write the content the file
\* already holds.
C16_DeterministicDump ==
  ~IsNone(countries) =>
    \A p \in Reordered(countries) :
      /\ Dump(p) = Dump(countries)
      /\ Saved => Dump(p) = jsonFile.items

\* a mapping of several pairs, inserted in another order than that of their
\* keys, was saved
C16_Witness ==
  /\ Saved
  /\ ~IsNone(countries)
  /\ Len(countries) >= 2
  /\ countries # Dump(countries)
  /\ jsonFile.items = Dump(countries)

\* C18: when the query is made for a secondary record whose mmsi is the mmsi
\* of a primary record, the primary record the query returns is one with
\* that mmsi, whatever primary record shares the imo.
C18_MmsiFirst ==
  (Stored /\ looked /\ MmsiMatches(LastRow) # {})
    => sx_row # NoSxRow /\ sx_row.mmsi = LastRow.mmsi

\* C20: a secondary record with non-empty mmsi, imo and name, whose country
\* code is absent, whose country name is no key of the mapping, and for
\* which no primary record with a country code matches, is stored with
\* flag_country_code NULL, and the mapping has no entry for its name after.
C20_PermissiveAcceptance ==
  ( /\ Handled
    /\ ValidRow(HandledRow)
    /\ HandledRow.mmsi \notin {NullId, EmptyId}
    /\ ~Truthy(RowCode(HandledRow))
    /\ IsNone(countries) \/ ~DictHas(countries, RowName(HandledRow))
    /\ CodedMatches(HandledRow) = {} )
  => /\ Stored
     /\ LastData.flag_country_code = NULL
     /\ ~DictHas(countries, RowName(LastRow))

\* C19 as claimed: at every point of a run the rows inserted and not yet
\* committed are fewer than the checkpoint interval, and after the final
\* commit none is uncommitted.
C19_CheckpointBound ==
  /\ Len(pending) < CheckpointInterval
  /\ pc \in {"save", "replace", "close", "done"} => pending = <<>>

\* C19 amended: the rows inserted and not yet committed are never more than
\* the checkpoint interval, and fewer wherever the loop is not between the
\* INSERT of a row and the checkpoint test that follows it; after the final
\* commit none is uncommitted; a first run terminated from outside leaves
\* in the merged table all but at most an interval of the rows it inserted.
C19_AtMostInterval ==
  /\ Len(pending) <= CheckpointInterval
  /\ pc # "checkpoint" => Len(pending) < CheckpointInterval
  /\ pc \in {"save", "replace", "close", "done"} => pending = <<>>
  /\ (run = 1 /\ pc = "killed") =>
       /\ pending = <<>>
       /\ i - Len(merged) <= CheckpointInterval
       /\ i - Len(merged) >= 0

\* the first run was terminated after the INSERT of its 100th record and
\* before the commit of line 165: the merged table holds none of them
C19_Witness ==
  /\ pc = "killed"
  /\ run = 1
  /\ count = CheckpointInterval
  /\ i = CheckpointInterval
  /\ merged = <<>>
  /\ pending = <<>>

\* the result of the call of normalize_name
Returned == npc = "returned"

C14_WitnessNone ==
  /\ Returned
  /\ name_in = <<"!", SP, "_">>
  /\ name_out = NULL

\* C15 as claimed: the argument   M/V "Sea Star"!!   normalizes to
\* MV SEA STAR.
C15_SeaStarNoSlash ==
  (Returned /\ name_in = SeaStar)
    => name_out = <<"M", "V", SP, "S", "E", "A", SP, "S", "T", "A", "R">>

\* C15 amended: the argument   M/V "Sea Star"!!   normalizes to
\* M/V SEA STAR: quotes and exclamation marks are removed, the runs of
\* spaces collapsed and trimmed, the letters upper-cased, the slash kept.
C15_SeaStarKeepsSlash ==
  (Returned /\ name_in = SeaStar)
    => name_out = <<"M", "/", "V", SP, "S", "E", "A", SP, "S", "T", "A", "R">>

\* normalize_name returned for the Sea Star
C15_Witness == Returned /\ name_in = SeaStar /\ name_out # NULL

\* what the cache alone gives for a page: its payload, or nothing
FromCache(p) == IF cache[p] \in {"payload", "empty"} THEN cache[p] ELSE "None"

\* C17: in a run with --no-network no HTTP request is made for any page,
\* the data of a page is what its cache file holds, and a page without a
\* usable cache file yields no data.
C17_NoNetworkNoRequest ==
  no_network =>
    /\ http_requests = 0
    /\ fpc # "fetch"
    /\ fpc = "handle" => page_data = FromCache(page)

\* fetch_page_from_network has returned to get_page_data for the page
FetchDone == fpc # "fetch" /\ outcome # "none"

\* the call makes at most max_retries requests
RequestBound == call_requests <= MAX_FETCH_RETRIES

\* the call returns the payload of the attempt that decoded one, and makes
\* no request after it
FirstSuccessReturns ==
  (FetchDone /\ outcome \in {"payload", "empty", "null"}) =>
    /\ page_data = (IF outcome = "null" THEN "None" ELSE outcome)
    /\ call_requests = attempt

\* after max_retries attempts that raised a RequestException the call
\* returns None
GivesUpAfterMax ==
  (FetchDone /\ outcome = "error") =>
    page_data = "None" /\ call_requests = MAX_FETCH_RETRIES

\* C21: fetch_page_from_network makes at most max_retries requests for a
\* page, returns the decoded payload at the first successful attempt,
\* returns None without a further attempt when a body is no JSON, and
\* otherwise returns None after max_retries failed attempts.
C21_FetchContract ==
  /\ RequestBound
  /\ FirstSuccessReturns
  /\ outcome = "not_json" =>
       /\ fpc # "fetch"
       /\ page_data = "None"
       /\ call_requests = attempt
  /\ GivesUpAfterMax

\* C21 without the decode failure: the parts that hold
C21_BoundAndReturns ==
  /\ RequestBound
  /\ FirstSuccessReturns
  /\ GivesUpAfterMax
  /\ (FetchDone /\ outcome = "not_json") =>
       page_data = "None" /\ call_requests <= MAX_FETCH_RETRIES

\* every call of fetch_page_from_network returns
C21_FetchTerminates == (fpc = "fetch") ~> (fpc = "handle")

====
